---- MODULE Spec2Model ----
(***************************************************************************)
(* Model of the chat server (src/src/index.tsx, src/src/lib/utils.ts,      *)
(* src/src/lib/auth.ts, src/migrations/0001_initial_schema.sql).           *)
(*                                                                         *)
(* Every HTTP handler is a process that runs in a request slot.  A handler *)
(* is cut at its awaited store statements: each action below is one        *)
(* statement together with the local code that precedes the next one, so   *)
(* concurrent requests interleave exactly where the code awaits the store. *)
(* The store executes each statement atomically and does not fail; the     *)
(* e-mail dispatcher may fail.  A step that answers a request leaves the   *)
(* response in resp, and Deliver hands it to the client before the next    *)
(* step.  The session library (lucia) is modelled from its contract.       *)
(*                                                                         *)
(* Time is the value of Date.now(), counted in clock units of one hour.    *)
(* Tokens and session identifiers are unguessable (generateToken draws     *)
(* them at random): a client presents only values the server issued, or a  *)
(* value that names nothing.                                               *)
(***************************************************************************)
EXTENDS Integers, Sequences, FiniteSets, TLC

\* ------------------------------------------------------------------ bounds
MaxTime == 3          \* the clock stops here
MaxOps == 3           \* requests that changed a table or went past their first statement
Backlog == 99         \* length of the initial message log in the second initial state

\* ------------------------------------------------------- program constants
TOKEN_TTL == 1        \* 60 * 60 * 1000 ms, in clock units of one hour
SESSION_TTL == 2      \* session lifetime of the session library, in clock units
MIN_PASSWORD == 8     \* password.length < 8
MAX_MESSAGE == 1000   \* message.length > 1000
LIST_LIMIT == 100     \* LIMIT 100

\* ------------------------------------------------------------------ inputs
Reqs == {1, 2}                          \* request slots (concurrent multi-statement handlers)
Emails == {"a@x.com", "b@x.com"}
\* "" is a missing or empty JSON field: both are falsy in the handlers.
Passwords == {"longpassword", "otherpassw0rd"}
\* Request bodies: every well-formed pair, one with each field missing,
\* and for /api/register a password of fewer than 8 characters.
LoginInputs ==
    (Emails \X Passwords) \cup { << "", "longpassword" >>, << "a@x.com", "" >> }
RegisterInputs == LoginInputs \cup (Emails \X { "short" })
Salts == {"Salt16"}
NoToken == 0                            \* no token parameter (or an empty one)
NoCookie == 0                           \* no session cookie
BlankCookie == -1                       \* the blank session cookie

\* A message text is lead blanks, then core characters that begin and end
\* with a non-blank, then trail blanks.  Text(0, 0, 0) is the empty string,
\* which also stands for a missing field (both falsy).
Text(l, c, t) == [lead |-> l, core |-> c, trail |-> t]
NoText == Text(0, 0, 0)
TextInputs ==
    { NoText, Text(1, 0, 0), Text(1, 2, 1),
      Text(0, 1000, 0), Text(0, 1000, 1), Text(0, 1001, 0) }

VARIABLES
    now,        \* Date.now()
    apiKey,     \* c.env.RESEND_API_KEY is configured
    users,      \* table users: rows [id, email, password_hash, verified]
    tokens,     \* table email_verification_tokens: rows [token, user_id, expires_at]
    sessions,   \* table sessions: rows [id, user_id, expires_at]
    messages,   \* table messages: rows [id, user_id, message, created_at], by id
    reqs,       \* request slot -> the handler running in it
    resp,       \* the response sent by the last step, NoResp if it sent none
    outbox,     \* e-mails accepted by the dispatcher: [to, token]
    nextToken,  \* the next value generateToken(48) returns
    issued,     \* history: issued[s] is the owner of session s, for every session ever created
    tokenOwner, \* history: tokenOwner[t] is the owner of token t, for every token ever created
    verifications, \* history: the token of every /verify request that completed successfully
    via,        \* history: via[i] is the session that posted message i
    loggedOut,  \* history: the sessions named by a /api/logout request that completed
    seeded,     \* length of the initial message log
    lastTimestamp, \* the polling client: the largest createdAt it has received
    received,   \* the polling client: the ids of the messages it has received
    ops         \* number of requests so far that had an effect

client == << lastTimestamp, received >>

vars == << now, apiKey, users, tokens, sessions, messages, reqs, resp, outbox,
           nextToken, issued, tokenOwner, verifications, via, loggedOut, seeded, client, ops >>

stores == << users, tokens, sessions, messages >>

\* ------------------------------------------------------------ src/lib/utils.ts
\* crypto.subtle.digest('SHA-256', .) rendered in hex: an injective digest.
SHA256Hex(data) == "sha256(" \o data \o ")"

\* A stored hash string is kept as a sequence of pieces, each a string; the
\* piece ":" is a colon, and no other piece contains one (the salt is drawn
\* from letters and digits, the digest is hex).
\* Line 17: `${salt}:${saltedHashHex}`
hashPassword(password, salt) == << salt, ":", SHA256Hex(salt \o password) >>

\* hash.split(':'): the strings between the colons, in order.
RECURSIVE SplitColon(_)
SplitColon(str) ==
    IF str = << >> THEN << "" >>
    ELSE LET rest == SplitColon(Tail(str)) IN
         IF Head(str) = ":" THEN << "" >> \o rest
         ELSE << Head(str) \o rest[1] >> \o Tail(rest)

\* Lines 22-43: the first two parts of the split are the salt and the stored
\* digest (a missing part is undefined, which is falsy like the empty
\* string); the comparison of lines 35-43 is string equality.
verifyPassword(hash, password) ==
    LET parts == SplitColon(hash)
        salt == parts[1]
        storedHash == IF Len(parts) >= 2 THEN parts[2] ELSE ""
    IN  IF salt = "" \/ storedHash = "" THEN FALSE
        ELSE SHA256Hex(salt \o password) = storedHash

\* ------------------------------------------------------------ text helpers
StrLen(m) == m.lead + m.core + m.trail
Trim(m) == Text(0, m.core, 0)
Falsy(m) == StrLen(m) = 0

\* ------------------------------------------------------------ store statements
SelectUserByEmail(us, email) == { u \in us : u.email = email }

UserById(us, id) == CHOOSE u \in us : u.id = id

\* Variant of UniqueViolation: the column has no UNIQUE constraint.
UniqueViolationNever(us, email) == FALSE

\* UNIQUE(email): the insert throws when the email is taken.
UniqueViolation(us, email) == \E u \in us : u.email = email

\* Variant of InsertUser: the row is inserted with verified = 1.
InsertUserVerified(us, id, email, hash) ==
    us \cup { [id |-> id, email |-> email, password_hash |-> hash, verified |-> TRUE] }

InsertUser(us, id, email, hash) ==
    us \cup { [id |-> id, email |-> email, password_hash |-> hash, verified |-> FALSE] }

\* Variant of InsertToken: the row is bound to the first user's id.
InsertTokenFirstUser(toks, t, uid, exp) ==
    toks \cup { [token |-> t, user_id |-> 1, expires_at |-> exp] }

\* Variant of InsertToken: the INSERT is not executed.
InsertTokenLost(toks, t, uid, exp) == toks

InsertToken(toks, t, uid, exp) ==
    toks \cup { [token |-> t, user_id |-> uid, expires_at |-> exp] }

SelectToken(toks, t) == { x \in toks : x.token = t }

\* Variant of DeleteToken: the DELETE removes nothing.
DeleteTokenNever(toks, t) == toks

DeleteToken(toks, t) == { x \in toks : x.token # t }

\* Variant of UpdateVerified: the UPDATE matches no row.
UpdateVerifiedNone(us, id) == us

\* Variant of UpdateVerified: the UPDATE has no WHERE clause.
UpdateVerifiedAll(us, id) ==
    { [u EXCEPT !.verified = TRUE] : u \in us }

UpdateVerified(us, id) ==
    { IF u.id = id THEN [u EXCEPT !.verified = TRUE] ELSE u : u \in us }

TokenExpired(exp, t) == exp < t

\* ------------------------------------------------------------ session library
createSession(ss, sid, uid, t) ==
    ss \cup { [id |-> sid, user_id |-> uid, expires_at |-> t + SESSION_TTL] }

SessionRow(ss, sid) == { s \in ss : s.id = sid }

\* Variant of SessionValid: the expiry is not looked at.
SessionValidNoExpiry(ss, sid, t) == SessionRow(ss, sid) # {}

SessionValid(ss, sid, t) == \E s \in SessionRow(ss, sid) : t < s.expires_at

\* validateSession deletes the row of an expired session.
AfterValidate(ss, sid, t) ==
    IF SessionValid(ss, sid, t) THEN ss ELSE { s \in ss : s.id # sid }

SessionUser(ss, sid) == (CHOOSE s \in ss : s.id = sid).user_id

invalidateSession(ss, sid) == { s \in ss : s.id # sid }

\* ------------------------------------------------------------ slots and responses
Idle ==
    [pc |-> "idle", email |-> "", password |-> "", token |-> 0, cookie |-> 0,
     text |-> NoText, uid |-> 0, exp |-> 0, ts |-> 0]

NoArgs == [email |-> "", password |-> "", token |-> 0, cookie |-> 0,
           text |-> NoText, after |-> 0]

NoResp ==
    [op |-> "none", args |-> NoArgs, status |-> 0, error |-> "",
     setCookie |-> NoCookie, rows |-> << >>]

Reply(op, args, status, error, setCookie) ==
    [op |-> op, args |-> args, status |-> status, error |-> error,
     setCookie |-> setCookie, rows |-> << >>]

ArgsOf(q) ==
    [email |-> q.email, password |-> q.password, token |-> q.token,
     cookie |-> q.cookie, text |-> q.text, after |-> 0]

history == << issued, tokenOwner, verifications, via, loggedOut >>

\* The tokens that have verified a user.
consumed == { verifications[i] : i \in DOMAIN verifications }

\* A request arrives when the last response has been delivered.
Arrive ==
    /\ resp = NoResp
    /\ ops < MaxOps

\* A new handler takes the first free slot.
Accept(r) ==
    /\ Arrive
    /\ reqs[r].pc = "idle"
    /\ \A q \in Reqs : q < r => reqs[q].pc # "idle"

\* A request that was answered at once and changed no table is not counted.
Count ==
    ops' = IF stores' = stores /\ reqs' = reqs THEN ops ELSE ops + 1

Resume(r, pc) ==
    /\ resp = NoResp
    /\ reqs[r].pc = pc
    /\ UNCHANGED ops

\* The tokens a client can present: none, the ones mailed to it, or a value
\* that names no token (one that generateToken has not returned).
TokenInputs == { NoToken, nextToken } \cup { m.token : m \in outbox }

\* The cookies a client can present: none, the session identifiers issued
\* so far, or a value that names no session.
CookieInputs == { NoCookie } \cup (1 .. Len(issued) + 1)

\* A post is sent with every text when its cookie names a session in the
\* store; the handler does not read the text of any other post.
PostInputs ==
    { in \in CookieInputs \X TextInputs :
        in[2] = Text(1, 2, 1) \/ \E s \in sessions : s.id = in[1] }

\* The after parameter of a list request, as parseInt reads it: any
\* timestamp up to the end of the clock.
AfterInputs == 0 .. MaxTime

\* ------------------------------------------------------------ POST /api/register
RegisterValid(email, password) ==
    email # "" /\ password # "" /\ Len(password) >= MIN_PASSWORD

\* Variant of EmailTaken: the existence check is skipped.
EmailTakenNever(us, email) == FALSE

EmailTaken(us, email) == SelectUserByEmail(us, email) # {}

\* Variant of RegisterStart: the SELECT runs before the fields are validated.
RegisterStartSelectFirst(r, email, password) ==
    /\ Accept(r)
    /\ LET args == [NoArgs EXCEPT !.email = email, !.password = password] IN
       IF EmailTaken(users, email)
       THEN /\ resp' = Reply("register", args, 400, "Email already registered", NoCookie)
            /\ UNCHANGED reqs
       ELSE IF email = "" \/ password = ""
       THEN /\ resp' = Reply("register", args, 400, "Email and password are required", NoCookie)
            /\ UNCHANGED reqs
       ELSE IF Len(password) < MIN_PASSWORD
       THEN /\ resp' = Reply("register", args, 400, "Password must be at least 8 characters", NoCookie)
            /\ UNCHANGED reqs
       ELSE /\ resp' = NoResp
            /\ reqs' = [reqs EXCEPT ![r] =
                          [Idle EXCEPT !.pc = "reg_insert_user", !.email = email,
                                       !.password = password]]
    /\ UNCHANGED << now, apiKey, stores, outbox, nextToken, history, seeded, client >>
    /\ Count

\* Lines 25-45: parse, validate, SELECT id FROM users WHERE email = ?
RegisterStart(r, email, password) ==
    /\ Accept(r)
    /\ LET args == [NoArgs EXCEPT !.email = email, !.password = password] IN
       IF email = "" \/ password = ""
       THEN /\ resp' = Reply("register", args, 400, "Email and password are required", NoCookie)
            /\ UNCHANGED reqs
       ELSE IF Len(password) < MIN_PASSWORD
       THEN /\ resp' = Reply("register", args, 400, "Password must be at least 8 characters", NoCookie)
            /\ UNCHANGED reqs
       ELSE IF EmailTaken(users, email)
       THEN /\ resp' = Reply("register", args, 400, "Email already registered", NoCookie)
            /\ UNCHANGED reqs
       ELSE /\ resp' = NoResp
            /\ reqs' = [reqs EXCEPT ![r] =
                          [Idle EXCEPT !.pc = "reg_insert_user", !.email = email,
                                       !.password = password]]
    /\ UNCHANGED << now, apiKey, stores, outbox, nextToken, history, seeded, client >>
    /\ Count

\* Lines 47-55: generateUserId, hashPassword, INSERT INTO users
RegisterInsertUser(r) ==
    /\ Resume(r, "reg_insert_user")
    /\ IF UniqueViolation(users, reqs[r].email)
       THEN /\ resp' = Reply("register", ArgsOf(reqs[r]), 500, "Registration failed", NoCookie)
            /\ reqs' = [reqs EXCEPT ![r] = Idle]
            /\ UNCHANGED users
       ELSE \E salt \in Salts :
            LET id == Cardinality(users) + 1 IN
            /\ users' = InsertUser(users, id, reqs[r].email,
                                   hashPassword(reqs[r].password, salt))
            /\ reqs' = [reqs EXCEPT ![r].pc = "reg_insert_token", ![r].uid = id]
            /\ resp' = NoResp
    /\ UNCHANGED << now, apiKey, tokens, sessions, messages, outbox, nextToken,
                    history, seeded, client >>

\* Lines 57-74: generateToken, INSERT INTO email_verification_tokens, read the API key
RegisterInsertToken(r) ==
    /\ Resume(r, "reg_insert_token")
    /\ tokens' = InsertToken(tokens, nextToken, reqs[r].uid, now + TOKEN_TTL)
    /\ tokenOwner' = Append(tokenOwner, reqs[r].uid)
    /\ nextToken' = nextToken + 1
    /\ IF ~apiKey
       THEN /\ resp' = Reply("register", ArgsOf(reqs[r]), 500, "Email service is not configured", NoCookie)
            /\ reqs' = [reqs EXCEPT ![r] = Idle]
       ELSE /\ resp' = NoResp
            /\ reqs' = [reqs EXCEPT ![r].pc = "reg_send", ![r].token = nextToken]
    /\ UNCHANGED << now, apiKey, users, sessions, messages, outbox, issued,
                    verifications, via, loggedOut, seeded, client >>

\* Variant of RegisterSend: a failed dispatch removes the user and its token.
RegisterSendRollback(r) ==
    /\ Resume(r, "reg_send")
    /\ \E success \in BOOLEAN :
         IF success
         THEN /\ outbox' = outbox \cup { [to |-> reqs[r].email, token |-> reqs[r].token] }
              /\ resp' = Reply("register", ArgsOf(reqs[r]), 200, "", NoCookie)
              /\ UNCHANGED << users, tokens >>
         ELSE /\ UNCHANGED outbox
              /\ resp' = Reply("register", ArgsOf(reqs[r]), 500, "Failed to send email", NoCookie)
              /\ users' = { u \in users : u.id # reqs[r].uid }
              /\ tokens' = DeleteToken(tokens, reqs[r].token)
    /\ reqs' = [reqs EXCEPT ![r] = Idle]
    /\ UNCHANGED << now, apiKey, sessions, messages, nextToken, history, seeded, client >>

\* Lines 76-87: sendEmail, which reports success or failure
RegisterSend(r) ==
    /\ Resume(r, "reg_send")
    /\ \E success \in BOOLEAN :
         IF success
         THEN /\ outbox' = outbox \cup { [to |-> reqs[r].email, token |-> reqs[r].token] }
              /\ resp' = Reply("register", ArgsOf(reqs[r]), 200, "", NoCookie)
         ELSE /\ UNCHANGED outbox
              /\ resp' = Reply("register", ArgsOf(reqs[r]), 500, "Failed to send email", NoCookie)
    /\ reqs' = [reqs EXCEPT ![r] = Idle]
    /\ UNCHANGED << now, apiKey, stores, nextToken, history, seeded, client >>

\* ------------------------------------------------------------ GET /verify
\* Lines 97-113: read the token parameter, SELECT user_id, expires_at
VerifyStart(r, token) ==
    /\ Accept(r)
    /\ LET args == [NoArgs EXCEPT !.token = token] IN
       IF token = NoToken
       THEN /\ resp' = Reply("verify", args, 200, "Invalid verification link", NoCookie)
            /\ UNCHANGED reqs
       ELSE IF SelectToken(tokens, token) = {}
       THEN /\ resp' = Reply("verify", args, 200, "Invalid or expired verification link", NoCookie)
            /\ UNCHANGED reqs
       ELSE LET row == CHOOSE x \in tokens : x.token = token IN
            /\ resp' = NoResp
            /\ reqs' = [reqs EXCEPT ![r] =
                          [Idle EXCEPT !.pc = "ver_check", !.token = token,
                                       !.uid = row.user_id, !.exp = row.expires_at]]
    /\ UNCHANGED << now, apiKey, stores, outbox, nextToken, history, seeded, client >>
    /\ Count

\* Lines 115-127: compare with Date.now(); DELETE the expired token, or UPDATE users
VerifyCheck(r) ==
    /\ Resume(r, "ver_check")
    /\ IF TokenExpired(reqs[r].exp, now)
       THEN /\ tokens' = DeleteToken(tokens, reqs[r].token)
            /\ resp' = Reply("verify", ArgsOf(reqs[r]), 200, "Verification link has expired", NoCookie)
            /\ reqs' = [reqs EXCEPT ![r] = Idle]
            /\ UNCHANGED users
       ELSE /\ users' = UpdateVerified(users, reqs[r].uid)
            /\ resp' = NoResp
            /\ reqs' = [reqs EXCEPT ![r].pc = "ver_delete"]
            /\ UNCHANGED tokens
    /\ UNCHANGED << now, apiKey, sessions, messages, outbox, nextToken, history, seeded, client >>

\* Lines 129-133: DELETE FROM email_verification_tokens
VerifyDelete(r) ==
    /\ Resume(r, "ver_delete")
    /\ tokens' = DeleteToken(tokens, reqs[r].token)
    /\ resp' = NoResp
    /\ reqs' = [reqs EXCEPT ![r].pc = "ver_session"]
    /\ UNCHANGED << now, apiKey, users, sessions, messages, outbox, nextToken,
                    history, seeded, client >>

\* Lines 135-143: createSession, set the session cookie, redirect to /chat
VerifySession(r) ==
    /\ Resume(r, "ver_session")
    /\ LET sid == Len(issued) + 1 IN
       /\ sessions' = createSession(sessions, sid, reqs[r].uid, now)
       /\ issued' = Append(issued, reqs[r].uid)
       /\ resp' = Reply("verify", ArgsOf(reqs[r]), 302, "", sid)
    /\ verifications' = Append(verifications, reqs[r].token)
    /\ reqs' = [reqs EXCEPT ![r] = Idle]
    /\ UNCHANGED << now, apiKey, users, tokens, messages, outbox, nextToken,
                    tokenOwner, via, loggedOut, seeded, client >>

\* ------------------------------------------------------------ POST /api/login
\* Lines 153-180: parse, SELECT the user, check verified, verifyPassword
\* Variant of LoginError: the password is checked before the verified flag.
LoginErrorPasswordFirst(us, email, password) ==
    IF email = "" \/ password = "" THEN "Email and password are required"
    ELSE IF SelectUserByEmail(us, email) = {} THEN "Invalid email or password"
    ELSE LET user == CHOOSE u \in us : u.email = email IN
         IF ~verifyPassword(user.password_hash, password)
         THEN "Invalid email or password"
         ELSE IF ~user.verified THEN "Please verify your email first"
         ELSE ""

\* Variant of LoginError: the verified flag is not checked.
LoginErrorNoVerified(us, email, password) ==
    IF email = "" \/ password = "" THEN "Email and password are required"
    ELSE IF SelectUserByEmail(us, email) = {} THEN "Invalid email or password"
    ELSE LET user == CHOOSE u \in us : u.email = email IN
         IF ~verifyPassword(user.password_hash, password)
         THEN "Invalid email or password"
         ELSE ""

\* Variant of LoginError: the password is not checked.
LoginErrorNoPassword(us, email, password) ==
    IF email = "" \/ password = "" THEN "Email and password are required"
    ELSE IF SelectUserByEmail(us, email) = {} THEN "Invalid email or password"
    ELSE LET user == CHOOSE u \in us : u.email = email IN
         IF ~user.verified THEN "Please verify your email first"
         ELSE ""

LoginError(us, email, password) ==
    IF email = "" \/ password = "" THEN "Email and password are required"
    ELSE IF SelectUserByEmail(us, email) = {} THEN "Invalid email or password"
    ELSE LET user == CHOOSE u \in us : u.email = email IN
         IF ~user.verified THEN "Please verify your email first"
         ELSE IF ~verifyPassword(user.password_hash, password)
         THEN "Invalid email or password"
         ELSE ""

LoginStatus(error) ==
    IF error = "" THEN 200
    ELSE IF error = "Email and password are required" THEN 400 ELSE 401

LoginStart(r, email, password) ==
    /\ Accept(r)
    /\ LET args == [NoArgs EXCEPT !.email = email, !.password = password]
           error == LoginError(users, email, password) IN
       IF error # ""
       THEN /\ resp' = Reply("login", args, LoginStatus(error), error, NoCookie)
            /\ UNCHANGED reqs
       ELSE /\ resp' = NoResp
            /\ reqs' = [reqs EXCEPT ![r] =
                          [Idle EXCEPT !.pc = "login_session", !.email = email,
                                       !.password = password,
                                       !.uid = (CHOOSE u \in users : u.email = email).id]]
    /\ UNCHANGED << now, apiKey, stores, outbox, nextToken, history, seeded, client >>
    /\ Count

\* Lines 182-189: createSession, set the session cookie
LoginSession(r) ==
    /\ Resume(r, "login_session")
    /\ LET sid == Len(issued) + 1 IN
       /\ sessions' = createSession(sessions, sid, reqs[r].uid, now)
       /\ issued' = Append(issued, reqs[r].uid)
       /\ resp' = Reply("login", ArgsOf(reqs[r]), 200, "", sid)
    /\ reqs' = [reqs EXCEPT ![r] = Idle]
    /\ UNCHANGED << now, apiKey, users, tokens, messages, outbox, nextToken,
                    tokenOwner, verifications, via, loggedOut, seeded, client >>

\* ------------------------------------------------------------ POST /api/logout
\* Variant of Logout: every session of the caller's user is invalidated.
LogoutAllSessions(cookie) ==
    /\ Arrive
    /\ sessions' = { s \in sessions :
                       \A c \in SessionRow(sessions, cookie) : s.user_id # c.user_id }
    /\ resp' = Reply("logout", [NoArgs EXCEPT !.cookie = cookie], 200, "", BlankCookie)
    /\ loggedOut' = loggedOut \cup ({ cookie } \cap DOMAIN issued)
    /\ UNCHANGED << now, apiKey, users, tokens, messages, reqs, outbox, nextToken,
                    issued, tokenOwner, verifications, via, seeded, client >>
    /\ Count

\* Variant of Logout: the session is not invalidated.
LogoutKeepsSession(cookie) ==
    /\ Arrive
    /\ resp' = Reply("logout", [NoArgs EXCEPT !.cookie = cookie], 200, "", BlankCookie)
    /\ loggedOut' = loggedOut \cup ({ cookie } \cap DOMAIN issued)
    /\ UNCHANGED << now, apiKey, stores, reqs, outbox, nextToken,
                    issued, tokenOwner, verifications, via, seeded, client >>
    /\ Count

\* Lines 199-210: invalidateSession when a cookie is sent, blank cookie
Logout(cookie) ==
    /\ Arrive
    /\ sessions' = IF cookie # NoCookie THEN invalidateSession(sessions, cookie)
                   ELSE sessions
    /\ resp' = Reply("logout", [NoArgs EXCEPT !.cookie = cookie], 200, "", BlankCookie)
    /\ loggedOut' = loggedOut \cup ({ cookie } \cap DOMAIN issued)
    /\ UNCHANGED << now, apiKey, users, tokens, messages, reqs, outbox, nextToken,
                    issued, tokenOwner, verifications, via, seeded, client >>
    /\ Count

\* ------------------------------------------------------------ GET /api/user
\* Lines 220-241: validateSession, answer the user's id, email and verified
GetUser(cookie) ==
    /\ Arrive
    /\ LET args == [NoArgs EXCEPT !.cookie = cookie] IN
       IF cookie = NoCookie
       THEN /\ resp' = Reply("user", args, 401, "Not authenticated", NoCookie)
            /\ UNCHANGED sessions
       ELSE IF ~SessionValid(sessions, cookie, now)
       THEN /\ resp' = Reply("user", args, 401, "Invalid session", NoCookie)
            /\ sessions' = AfterValidate(sessions, cookie, now)
       ELSE LET user == UserById(users, SessionUser(sessions, cookie)) IN
            /\ resp' = [Reply("user", args, 200, "", NoCookie) EXCEPT
                          !.rows = << [id |-> user.id, email |-> user.email,
                                       verified |-> user.verified] >>]
            /\ UNCHANGED sessions
    /\ UNCHANGED << now, apiKey, users, tokens, messages, reqs, outbox, nextToken,
                    history, seeded, client >>
    /\ Count

\* ------------------------------------------------------------ POST /api/messages
\* Variant of PostAuthorized: any cookie is taken for a session.
PostAuthorizedByCookie(ss, cookie, t) == cookie # NoCookie

PostAuthorized(ss, cookie, t) == cookie # NoCookie /\ SessionValid(ss, cookie, t)

\* Lines 251-263: read the cookie, validateSession
PostStart(r, cookie, text) ==
    /\ Accept(r)
    /\ LET args == [NoArgs EXCEPT !.cookie = cookie, !.text = text] IN
       IF cookie = NoCookie
       THEN /\ resp' = Reply("post", args, 401, "Not authenticated", NoCookie)
            /\ UNCHANGED << reqs, sessions >>
       ELSE IF ~PostAuthorized(sessions, cookie, now)
       THEN /\ resp' = Reply("post", args, 401, "Invalid session", NoCookie)
            /\ sessions' = AfterValidate(sessions, cookie, now)
            /\ UNCHANGED reqs
       ELSE /\ resp' = NoResp
            /\ UNCHANGED sessions
            /\ reqs' = [reqs EXCEPT ![r] =
                          [Idle EXCEPT !.pc = "post_check", !.cookie = cookie,
                                       !.text = text,
                                       !.uid = IF SessionRow(sessions, cookie) = {} THEN 0
                                               ELSE SessionUser(sessions, cookie)]]
    /\ UNCHANGED << now, apiKey, users, tokens, messages, outbox, nextToken,
                    history, seeded, client >>
    /\ Count

\* Variant of TextError: the limit is applied to the trimmed text.
TextErrorTrimmed(m) ==
    IF Falsy(m) \/ StrLen(Trim(m)) = 0 THEN "Message cannot be empty"
    ELSE IF StrLen(Trim(m)) > MAX_MESSAGE THEN "Message is too long (max 1000 characters)"
    ELSE ""

\* Lines 267-273: the two checks on the message text
TextError(m) ==
    IF Falsy(m) \/ StrLen(Trim(m)) = 0 THEN "Message cannot be empty"
    ELSE IF StrLen(m) > MAX_MESSAGE THEN "Message is too long (max 1000 characters)"
    ELSE ""

\* Lines 265-275: parse the body, check the text, read Date.now()
PostCheck(r) ==
    /\ Resume(r, "post_check")
    /\ LET error == TextError(reqs[r].text) IN
       IF error # ""
       THEN /\ resp' = Reply("post", ArgsOf(reqs[r]), 400, error, NoCookie)
            /\ reqs' = [reqs EXCEPT ![r] = Idle]
       ELSE /\ resp' = NoResp
            /\ reqs' = [reqs EXCEPT ![r].pc = "post_insert", ![r].ts = now]
    /\ UNCHANGED << now, apiKey, stores, outbox, nextToken, history, seeded, client >>

\* Variant of InsertMessage: INSERT OR REPLACE with the largest id in use.
InsertMessageReplace(ms, uid, text, ts) ==
    IF ms = << >>
    THEN << [id |-> 1, user_id |-> uid, message |-> text, created_at |-> ts] >>
    ELSE [ms EXCEPT ![Len(ms)] =
            [id |-> Len(ms), user_id |-> uid, message |-> text, created_at |-> ts]]

\* AUTOINCREMENT: the new row's id is one more than the largest id.
InsertMessage(ms, uid, text, ts) ==
    Append(ms, [id |-> Len(ms) + 1, user_id |-> uid, message |-> text, created_at |-> ts])

\* Lines 277-282: INSERT INTO messages, acknowledge
PostInsert(r) ==
    /\ Resume(r, "post_insert")
    /\ messages' = InsertMessage(messages, reqs[r].uid, Trim(reqs[r].text), reqs[r].ts)
    /\ via' = Append(via, reqs[r].cookie)
    /\ resp' = Reply("post", ArgsOf(reqs[r]), 200, "", NoCookie)
    /\ reqs' = [reqs EXCEPT ![r] = Idle]
    /\ UNCHANGED << now, apiKey, users, tokens, sessions, outbox, nextToken,
                    issued, tokenOwner, verifications, loggedOut, seeded, client >>

\* ------------------------------------------------------------ GET /api/messages
Min(a, b) == IF a < b THEN a ELSE b

\* The rows with created_at = t, in id order.
RowsAt(ms, t) == SelectSeq(ms, LAMBDA m : m.created_at = t)

\* Variant of RowsAfter: WHERE m.created_at >= after.
RECURSIVE RowsAfterInclusive(_, _, _)
RowsAfterInclusive(ms, after, upto) ==
    IF upto < after THEN << >>
    ELSE RowsAfterInclusive(ms, after, upto - 1) \o RowsAt(ms, upto)

\* WHERE m.created_at > after ORDER BY m.created_at ASC, rows of one
\* timestamp in id order (the order of the created_at index).
RECURSIVE RowsAfter(_, _, _)
RowsAfter(ms, after, upto) ==
    IF upto <= after THEN << >>
    ELSE RowsAfter(ms, after, upto - 1) \o RowsAt(ms, upto)

Limit(rows, n) == SubSeq(rows, 1, Min(Len(rows), n))

\* JOIN users u ON m.user_id = u.id, and the map of lines 310-315
JoinEmail(us, rows) ==
    LET joined == SelectSeq(rows, LAMBDA m : \E u \in us : u.id = m.user_id) IN
    [i \in 1 .. Len(joined) |->
        [id |-> joined[i].id, message |-> joined[i].message,
         email |-> UserById(us, joined[i].user_id).email,
         createdAt |-> joined[i].created_at]]

\* Variant of ListQuery: LIMIT 1.
ListQueryLimitOne(us, ms, after) == Limit(JoinEmail(us, RowsAfter(ms, after, MaxTime)), 1)

ListQuery(us, ms, after) == Limit(JoinEmail(us, RowsAfter(ms, after, MaxTime)), LIST_LIMIT)

\* Lines 292-316
ListMessages(after) ==
    /\ Arrive
    /\ resp' = [Reply("list", [NoArgs EXCEPT !.after = after], 200, "", NoCookie)
                  EXCEPT !.rows = ListQuery(users, messages, after)]
    /\ UNCHANGED << now, apiKey, stores, reqs, outbox, nextToken, history, seeded, client >>
    /\ Count

\* ------------------------------------------------------------ the polling client
\* Variant of MaxSeen: the createdAt of the first row received.
MaxSeenFirst(last, rows) == IF rows = << >> THEN last ELSE rows[1].createdAt

\* Line 591: lastTimestamp = Math.max(lastTimestamp, msg.createdAt), over the
\* rows received.
MaxSeen(last, rows) ==
    LET seen == { last } \cup { rows[k].createdAt : k \in DOMAIN rows } IN
    CHOOSE x \in seen : \A y \in seen : y <= x

\* Lines 573-599: the client that sent list(after) receives the rows, moves
\* lastTimestamp, and polls again with it; the server answers as in
\* ListMessages.
loadMessages ==
    /\ resp.op = "list"
    /\ LET after == MaxSeen(resp.args.after, resp.rows) IN
       resp' = [Reply("list", [NoArgs EXCEPT !.after = after], 200, "", NoCookie)
                  EXCEPT !.rows = ListQuery(users, messages, after)]
    /\ UNCHANGED << now, apiKey, stores, reqs, outbox, nextToken, history, seeded, client, ops >>

\* ------------------------------------------------------------ the clock
Tick ==
    /\ resp = NoResp
    /\ now < MaxTime
    /\ now' = now + 1
    /\ resp' = NoResp
    /\ UNCHANGED << apiKey, stores, reqs, outbox, nextToken, history, seeded, client, ops >>

\* The response of the last step reaches its client.
Deliver ==
    /\ resp # NoResp
    /\ resp' = NoResp
    /\ UNCHANGED << now, apiKey, stores, reqs, outbox, nextToken, history, seeded, client, ops >>

\* ------------------------------------------------------------ initial states
\* The second initial state: a@x.com registered, verified (which opened
\* session 1) and posted Backlog messages, all at time 1.
BacklogUser ==
    [id |-> 1, email |-> "a@x.com",
     password_hash |-> hashPassword("longpassword", "Salt16"), verified |-> TRUE]

BacklogLog(n) ==
    [i \in 1 .. n |-> [id |-> i, user_id |-> 1, message |-> Text(0, 2, 0), created_at |-> 1]]

InitFresh ==
    /\ apiKey \in BOOLEAN
    /\ users = {} /\ sessions = {} /\ messages = << >> /\ outbox = {}
    /\ nextToken = 1 /\ issued = << >> /\ tokenOwner = << >>
    /\ verifications = << >> /\ via = << >> /\ seeded = 0

InitBacklog ==
    /\ apiKey = TRUE
    /\ users = { BacklogUser } /\ messages = BacklogLog(Backlog)
    /\ sessions = createSession({}, 1, 1, 1)
    /\ outbox = { [to |-> "a@x.com", token |-> 1] }
    /\ nextToken = 2 /\ issued = << 1 >> /\ tokenOwner = << 1 >>
    /\ verifications = << 1 >> /\ via = [i \in 1 .. Backlog |-> 1] /\ seeded = Backlog

Init ==
    /\ now = 1
    /\ tokens = {}
    /\ reqs = [r \in Reqs |-> Idle]
    /\ resp = NoResp
    /\ loggedOut = {}
    /\ lastTimestamp = 0 /\ received = {}
    /\ ops = 0
    /\ (InitFresh \/ InitBacklog)

Next ==
    \/ \E r \in Reqs, in \in RegisterInputs : RegisterStart(r, in[1], in[2])
    \/ \E r \in Reqs : RegisterInsertUser(r)
    \/ \E r \in Reqs : RegisterInsertToken(r)
    \/ \E r \in Reqs : RegisterSend(r)
    \/ \E r \in Reqs, t \in TokenInputs : VerifyStart(r, t)
    \/ \E r \in Reqs : VerifyCheck(r)
    \/ \E r \in Reqs : VerifyDelete(r)
    \/ \E r \in Reqs : VerifySession(r)
    \/ \E r \in Reqs, in \in LoginInputs : LoginStart(r, in[1], in[2])
    \/ \E r \in Reqs : LoginSession(r)
    \/ \E c \in CookieInputs : Logout(c)
    \/ \E c \in CookieInputs : GetUser(c)
    \/ \E r \in Reqs, in \in PostInputs : PostStart(r, in[1], in[2])
    \/ \E r \in Reqs : PostCheck(r)
    \/ \E r \in Reqs : PostInsert(r)
    \/ \E a \in AfterInputs : ListMessages(a)
    \/ loadMessages
    \/ Tick
    \/ Deliver

Spec == Init /\ [][Next]_vars

\* ------------------------------------------------------------ the chat page alone
\* The chat page of a logged-in user: it posts, and its poller (lines
\* 573-599, started with lastTimestamp = 0 and run every 3 seconds) asks for
\* the messages after lastTimestamp, shows the rows it receives and moves
\* lastTimestamp to the largest createdAt among them.  The request and the
\* handling of its response are one step here: the server only reads.
Poll ==
    /\ resp = NoResp
    /\ LET rows == ListQuery(users, messages, lastTimestamp) IN
       /\ received' = received \cup { rows[k].id : k \in DOMAIN rows }
       /\ lastTimestamp' = MaxSeen(lastTimestamp, rows)
    /\ UNCHANGED << now, apiKey, stores, reqs, resp, outbox, nextToken, history,
                    seeded, ops >>

\* A verified user with a live session, and a message log that is empty or
\* holds Backlog messages.
PollingInit ==
    /\ now = 1 /\ apiKey = TRUE
    /\ users = { BacklogUser } /\ tokens = {}
    /\ sessions = createSession({}, 1, 1, 1)
    /\ seeded \in { 0, Backlog }
    /\ messages = BacklogLog(seeded)
    /\ via = [i \in 1 .. seeded |-> 1]
    /\ reqs = [r \in Reqs |-> Idle]
    /\ resp = NoResp
    /\ outbox = { [to |-> "a@x.com", token |-> 1] }
    /\ nextToken = 2 /\ issued = << 1 >> /\ tokenOwner = << 1 >>
    /\ verifications = << 1 >> /\ loggedOut = {}
    /\ lastTimestamp = 0 /\ received = {}
    /\ ops = 0

PollingNext ==
    \/ \E r \in Reqs, in \in PostInputs : PostStart(r, in[1], in[2])
    \/ \E r \in Reqs : PostCheck(r)
    \/ \E r \in Reqs : PostInsert(r)
    \/ Poll
    \/ Tick
    \/ Deliver

SpecPolling == PollingInit /\ [][PollingNext]_vars

\* ------------------------------------------------------------ the hasher alone
\* hashPassword and verifyPassword applied to drawn inputs: a password is
\* hashed with a drawn salt and the digest stored in a user row, or the row
\* starts with a digest that hashPassword does not produce; then a
\* candidate password is verified against the stored digest.  The slot
\* keeps the password that was hashed, the response the verdict.
HasherPasswords == { "", "c", "6c", "longpassword", "p:q" }
HasherSalts == { "Salt16", "Salt1", "tlaS61" }

\* Stored strings that are not salt:digestHex: the empty string, a string
\* without a colon (the digest of seed.sql), an empty salt, an empty
\* digest, a digest that is no SHA-256 value, and a third field.
MalformedDigests ==
    { << >>,
      << "$argon2id$v=19$m=65536,t=3,p=4$placeholder" >>,
      << ":", SHA256Hex("c") >>,
      << "Salt16", ":" >>,
      << "Salt16", ":", "nothex" >>,
      << "Salt16", ":", SHA256Hex("Salt16" \o "c"), ":", "tail" >> }

HasherRow(hash) ==
    [id |-> 1, email |-> "a@x.com", password_hash |-> hash, verified |-> FALSE]

HasherInit ==
    /\ now = 1 /\ apiKey = FALSE
    /\ users \in { {} } \cup { { HasherRow(h) } : h \in MalformedDigests }
    /\ tokens = {} /\ sessions = {} /\ messages = << >>
    /\ reqs = [r \in Reqs |-> Idle]
    /\ resp = NoResp
    /\ outbox = {} /\ nextToken = 1 /\ issued = << >> /\ tokenOwner = << >>
    /\ verifications = << >> /\ via = << >> /\ loggedOut = {} /\ seeded = 0
    /\ lastTimestamp = 0 /\ received = {}
    /\ ops = 0

HasherHash(password, salt) ==
    /\ users = {}
    /\ users' = InsertUser(users, 1, "a@x.com", hashPassword(password, salt))
    /\ reqs' = [reqs EXCEPT ![1].password = password]
    /\ UNCHANGED << now, apiKey, tokens, sessions, messages, resp, outbox, nextToken,
                    history, seeded, client, ops >>

HasherVerify(password) ==
    /\ users # {}
    /\ resp = NoResp
    /\ \E u \in users :
         resp' = [Reply("verifyPassword", [NoArgs EXCEPT !.password = password],
                        0, "", NoCookie)
                    EXCEPT !.rows = << verifyPassword(u.password_hash, password) >>]
    /\ UNCHANGED << now, apiKey, stores, reqs, outbox, nextToken, history, seeded, client, ops >>

HasherNext ==
    \/ \E password \in HasherPasswords, salt \in HasherSalts : HasherHash(password, salt)
    \/ \E password \in HasherPasswords : HasherVerify(password)

SpecHasher == HasherInit /\ [][HasherNext]_vars
\* ====================================================================
\* Properties
\* ====================================================================

\* C1: once a /verify request for token t has succeeded, every /verify
\* request for t that starts afterwards is answered "invalid link" at once:
\* it does not continue, creates no session and sets no cookie.
C1_SingleUseToken ==
    [][\A r \in Reqs : \A t \in consumed :
         VerifyStart(r, t) =>
           /\ resp' = Reply("verify", [NoArgs EXCEPT !.token = t], 200,
                            "Invalid or expired verification link", NoCookie)
           /\ reqs' = reqs
           /\ UNCHANGED << stores, issued >>]_vars

C1_Witness ==
    /\ resp.op = "verify"
    /\ resp.error = "Invalid or expired verification link"
    /\ resp.args.token \in consumed
    /\ seeded = 0

\* C2: no token verifies twice: among the /verify requests that completed
\* the success path, no two carried the same token.
C2_AtMostOnce ==
    \A i, j \in DOMAIN verifications :
        i # j => verifications[i] # verifications[j]

\* C3: a /verify request that reaches the expiry check with its token still
\* in the store verifies the user if and only if now < expires_at; when
\* now >= expires_at it deletes the token, reports the expired link and
\* leaves the users alone.
C3_TokenValidity ==
    [][\A r \in Reqs :
         (VerifyCheck(r) /\ SelectToken(tokens, reqs[r].token) # {}) =>
           IF now < reqs[r].exp
           THEN reqs'[r].pc = "ver_delete" /\ users' = UpdateVerified(users, reqs[r].uid)
           ELSE /\ resp'.error = "Verification link has expired"
                /\ users' = users
                /\ SelectToken(tokens', reqs[r].token) = {}]_vars

\* C4: no step deletes a user or changes its id, email or password hash; a
\* verified user stays verified; a new user is unverified; and the flag of
\* a user is set only by the UPDATE of a /verify request whose token is
\* owned by that user.
C4_Lifecycle ==
    [][/\ \A u \in users : \E v \in users' :
            /\ v.id = u.id /\ v.email = u.email /\ v.password_hash = u.password_hash
            /\ u.verified => v.verified
       /\ \A v \in users' : (\A u \in users : u.id # v.id) => ~v.verified
       /\ \A u \in users : \A v \in users' :
            (u.id = v.id /\ ~u.verified /\ v.verified) =>
              \E r \in Reqs :
                /\ reqs[r].pc = "ver_check" /\ reqs'[r].pc = "ver_delete"
                /\ reqs[r].uid = u.id
                /\ tokenOwner[reqs[r].token] = u.id]_vars

C4_Witness ==
    \E r \in Reqs : \E u \in users :
        /\ reqs[r].pc = "ver_delete" /\ reqs[r].uid = u.id /\ u.verified
        /\ \E v \in users : ~v.verified

\* C5: a /api/register request with valid fields that starts when the
\* email is registered is answered 400 "Email already registered", whatever
\* the password, changes no table and dispatches no e-mail.
C5_DuplicateRegistration ==
    [][\A r \in Reqs : \A in \in RegisterInputs :
         ( /\ RegisterValid(in[1], in[2])
           /\ SelectUserByEmail(users, in[1]) # {}
           /\ RegisterStart(r, in[1], in[2]) ) =>
           /\ resp' = Reply("register",
                            [NoArgs EXCEPT !.email = in[1], !.password = in[2]],
                            400, "Email already registered", NoCookie)
           /\ reqs' = reqs
           /\ UNCHANGED << stores, outbox >>]_vars

C5_Witness ==
    /\ seeded = 0
    /\ resp.op = "register"
    /\ resp.error = "Email already registered"
    /\ \E u \in users :
         /\ u.email = resp.args.email
         /\ ~verifyPassword(u.password_hash, resp.args.password)

\* The answer of a /api/login request with both fields present, as the
\* step that starts it gives it ("" when the request goes on to create a
\* session).
LoginAnswer(r) == IF reqs'[r].pc = "login_session" THEN "" ELSE resp'.error

\* C6 as claimed: the correct password for an unverified user yields the
\* specific error, and a wrong password or an unknown email yields the
\* generic error whatever the verification state.
C6_Original ==
    [][\A r \in Reqs : \A in \in Emails \X Passwords :
         LoginStart(r, in[1], in[2]) =>
           LET us == SelectUserByEmail(users, in[1]) IN
           /\ (\E u \in us : ~u.verified /\ verifyPassword(u.password_hash, in[2]))
                => LoginAnswer(r) = "Please verify your email first"
           /\ (us = {} \/ \E u \in us : ~verifyPassword(u.password_hash, in[2]))
                => LoginAnswer(r) = "Invalid email or password"]_vars

\* C6 amended: an unverified user gets the specific error with any
\* password; an unknown email, and a wrong password for a verified user,
\* get the generic error.
C6_LoginErrors ==
    [][\A r \in Reqs : \A in \in Emails \X Passwords :
         LoginStart(r, in[1], in[2]) =>
           LET us == SelectUserByEmail(users, in[1]) IN
           /\ (\E u \in us : ~u.verified)
                => LoginAnswer(r) = "Please verify your email first"
           /\ (us = {} \/ \E u \in us : u.verified /\ ~verifyPassword(u.password_hash, in[2]))
                => LoginAnswer(r) = "Invalid email or password"]_vars

C6_Witness ==
    /\ resp.op = "login"
    /\ resp.error = "Please verify your email first"
    /\ \E u \in users :
         /\ u.email = resp.args.email /\ ~u.verified
         /\ ~verifyPassword(u.password_hash, resp.args.password)
\* The /api/login request (email, password) names a verified user whose
\* stored digest matches the password.
LoginGood(email, password) ==
    /\ email # "" /\ password # ""
    /\ \E u \in users :
         u.email = email /\ u.verified /\ verifyPassword(u.password_hash, password)

\* C7: a /api/login request goes on to create a session if and only if its
\* user exists, is verified and the password matches; a rejected one is
\* answered 400 or 401 at once, without a cookie and without changing a
\* table; the other creates exactly one session, owned by the user with the
\* given email, sets its cookie, and changes no other table.
C7_LoginSession ==
    [][/\ \A r \in Reqs : \A in \in LoginInputs :
            LoginStart(r, in[1], in[2]) =>
              /\ UNCHANGED stores
              /\ IF LoginGood(in[1], in[2])
                 THEN /\ resp' = NoResp
                      /\ reqs'[r].pc = "login_session"
                      /\ reqs'[r].email = in[1]
                 ELSE /\ resp'.status \in {400, 401}
                      /\ resp'.setCookie = NoCookie
                      /\ reqs' = reqs
       /\ \A r \in Reqs :
            LoginSession(r) =>
              /\ UNCHANGED << users, tokens, messages >>
              /\ \E s \in sessions' :
                   /\ s \notin sessions
                   /\ sessions' = sessions \cup { s }
                   /\ \E u \in users : u.email = reqs[r].email /\ u.id = s.user_id
                   /\ resp'.status = 200
                   /\ resp'.setCookie = s.id
       /\ (resp'.op = "login" /\ resp'.status = 200) =>
            \E r \in Reqs : LoginSession(r)]_vars

C7_Witness ==
    /\ seeded = 0
    /\ resp.op = "login"
    /\ resp.status = 200
    /\ \E s \in sessions : \E u \in users :
         s.id = resp.setCookie /\ s.user_id = u.id /\ u.email = resp.args.email

\* C8: a post whose cookie is missing, or names no session or an expired
\* one, is answered 401 at once and appends no message; and the author of
\* every stored message is the owner of the session that posted it.
C8_AuthenticatedPost ==
    /\ [](\A i \in DOMAIN messages : issued[via[i]] = messages[i].user_id)
    /\ [][\A r \in Reqs : \A in \in PostInputs :
            ( /\ PostStart(r, in[1], in[2])
              /\ \/ in[1] = NoCookie
                 \/ ~\E s \in sessions : s.id = in[1] /\ now < s.expires_at ) =>
              /\ resp'.op = "post"
              /\ resp'.status = 401
              /\ reqs' = reqs
              /\ messages' = messages]_vars

C8_Witness ==
    /\ resp.op = "post"
    /\ resp.error = "Invalid session"
    /\ resp.args.cookie \in DOMAIN issued
    /\ Len(messages) > seeded

\* The outcome of the text checks of a post: TRUE when the request goes on
\* to insert the message.
PostAccepted(r) == reqs'[r].pc = "post_insert"

\* C9 as claimed: an authenticated post is accepted if and only if the
\* trimmed text has 1 to 1000 characters.
C9_Original ==
    [][\A r \in Reqs :
         PostCheck(r) =>
           (PostAccepted(r) <=>
              (StrLen(Trim(reqs[r].text)) >= 1 /\ StrLen(Trim(reqs[r].text)) <= MAX_MESSAGE))]_vars

\* C9 amended: an authenticated post is accepted if and only if the trimmed
\* text is not empty and the text as sent has at most 1000 characters; a
\* rejected one is answered 400, an accepted one is stored trimmed and
\* acknowledged.
C9_MessageLength ==
    [][\A r \in Reqs :
         /\ PostCheck(r) =>
              /\ PostAccepted(r) <=>
                   (StrLen(Trim(reqs[r].text)) >= 1 /\ StrLen(reqs[r].text) <= MAX_MESSAGE)
              /\ ~PostAccepted(r) =>
                   (resp'.status = 400 /\ reqs'[r].pc = "idle" /\ messages' = messages)
         /\ PostInsert(r) =>
              /\ resp'.status = 200
              /\ Len(messages') = Len(messages) + 1
              /\ messages'[Len(messages')].message = Trim(reqs[r].text)
              /\ StrLen(messages'[Len(messages')].message) \in 1 .. MAX_MESSAGE]_vars

C9_Witness ==
    /\ resp.op = "post"
    /\ resp.status = 200
    /\ resp.args.text = Text(0, 1000, 0)
    /\ messages[Len(messages)].message = Text(0, 1000, 0)

\* Message i is in the rows of a list response, with its author's email.
Listed(rows, i) ==
    \E k \in DOMAIN rows :
        /\ rows[k].id = i
        /\ rows[k].message = messages[i].message
        /\ rows[k].createdAt = messages[i].created_at
        /\ \E u \in users : u.id = messages[i].user_id /\ u.email = rows[k].email

\* C10 as claimed: list(0) returns every message stored (acknowledged)
\* before it.
C10_Original ==
    [][ListMessages(0) => \A i \in DOMAIN messages : Listed(resp'.rows, i)]_vars

\* C10 amended: list(0) returns every message stored before it, with its
\* poster's email, when the store holds at most 100 messages.
C10_ReadYourWrite ==
    [][(ListMessages(0) /\ Len(messages) <= LIST_LIMIT) =>
          \A i \in DOMAIN messages : Listed(resp'.rows, i)]_vars

C10_Witness ==
    /\ resp.op = "list"
    /\ resp.args.after = 0
    /\ Len(messages) > seeded
    /\ Len(messages) <= LIST_LIMIT
    /\ Listed(resp.rows, Len(messages))

\* The stored messages that a list request with the given after selects.
Qualifying(after) == { i \in DOMAIN messages : messages[i].created_at > after }

\* C11: a list request needs no cookie, is answered 200 and changes no
\* table; its rows are distinct stored messages with created_at > after, in
\* nondecreasing created_at order; there are min(100, number qualifying) of
\* them, and no qualifying message left out is older than a returned one.
C11_ListResult ==
    [][\A a \in AfterInputs :
         ListMessages(a) =>
           LET rows == resp'.rows IN
           /\ resp'.status = 200
           /\ UNCHANGED stores
           /\ \A k \in DOMAIN rows :
                /\ rows[k].createdAt > a
                /\ rows[k].id \in Qualifying(a)
                /\ Listed(rows, rows[k].id)
           /\ \A k, l \in DOMAIN rows :
                k < l => (rows[k].id # rows[l].id /\ rows[k].createdAt <= rows[l].createdAt)
           /\ Len(rows) = Min(Cardinality(Qualifying(a)), LIST_LIMIT)
           /\ \A i \in Qualifying(a) :
                (\A k \in DOMAIN rows : rows[k].id # i) =>
                   \A k \in DOMAIN rows : rows[k].createdAt <= messages[i].created_at]_vars

\* A list that is cut at 100 rows and leaves a newer message out.
C11_Witness ==
    /\ resp.op = "list"
    /\ resp.args.after = 0
    /\ Len(resp.rows) = LIST_LIMIT
    /\ Cardinality(Qualifying(0)) > LIST_LIMIT
    /\ \E i \in Qualifying(0) : messages[i].created_at > resp.rows[LIST_LIMIT].createdAt

\* C12 as claimed: the rows of list(0) are in nondecreasing createdAt
\* order, and the list(after = largest createdAt in them) that the client
\* sends next, with no post in between, returns no row.
C12_Original ==
    [][(loadMessages /\ resp.args.after = 0) =>
          /\ \A k, l \in DOMAIN resp.rows :
               k < l => resp.rows[k].createdAt <= resp.rows[l].createdAt
          /\ resp'.args.after = MaxSeen(0, resp.rows)
          /\ resp'.rows = << >>]_vars

\* C12 amended: the same, when the store holds at most 100 messages.
C12_PollingQuiescence ==
    [][(loadMessages /\ resp.args.after = 0 /\ Len(messages) <= LIST_LIMIT) =>
          /\ \A k, l \in DOMAIN resp.rows :
               k < l => resp.rows[k].createdAt <= resp.rows[l].createdAt
          /\ resp'.args.after = MaxSeen(0, resp.rows)
          /\ resp'.rows = << >>]_vars

\* The second poll has returned no row: the store holds posted messages of
\* two timestamps and the poll asked for the rows after the later one.
C12_Witness ==
    /\ resp.op = "list"
    /\ resp.rows = << >>
    /\ Len(messages) > seeded
    /\ Len(messages) <= LIST_LIMIT
    /\ \E i, j \in DOMAIN messages : messages[i].created_at < messages[j].created_at
    /\ resp.args.after = MaxSeen(0, ListQuery(users, messages, 0))

\* C13: a /api/logout request is answered 200 with the blank cookie
\* whatever cookie it carries, removes the session that cookie names and
\* nothing else; and once a logout carrying session s has completed, a
\* /api/user or post request carrying s is answered 401 at once, and the
\* post appends no message.
C13_LogoutEndsSession ==
    [][/\ \A c \in CookieInputs :
            Logout(c) =>
              /\ resp'.status = 200
              /\ resp'.setCookie = BlankCookie
              /\ sessions' = { s \in sessions : s.id # c }
              /\ UNCHANGED << users, tokens, messages >>
       /\ \A c \in loggedOut :
            /\ GetUser(c) => (resp'.op = "user" /\ resp'.status = 401)
            /\ \A r \in Reqs : \A in \in PostInputs :
                 (in[1] = c /\ PostStart(r, c, in[2])) =>
                    /\ resp'.op = "post"
                    /\ resp'.status = 401
                    /\ reqs' = reqs
                    /\ messages' = messages]_vars

\* A /api/user request carrying the cookie of a completed logout has been
\* refused.
C13_Witness ==
    /\ resp.op = "user"
    /\ resp.status = 401
    /\ resp.args.cookie \in loggedOut
    /\ \E u \in users : u.id = issued[resp.args.cookie] /\ u.verified

\* The user row and the token row that a /api/register request in slot r
\* has created are in the given tables, the user unverified.
RegisterRows(r, us, toks) ==
    \E u \in us : \E t \in toks :
        /\ u.id = reqs[r].uid /\ u.email = reqs[r].email /\ ~u.verified
        /\ t.user_id = u.id /\ tokenOwner'[t.token] = u.id

\* C14: when a /api/register request has inserted its user and the e-mail
\* cannot be sent, because the API key is missing or because the dispatcher
\* reports a failure, the request is answered 500 and the store then holds
\* the unverified user and its token; no e-mail was dispatched.
C14_NoRollback ==
    [][\A r \in Reqs :
         /\ (RegisterInsertToken(r) /\ ~apiKey) =>
              /\ resp'.op = "register" /\ resp'.status = 500
              /\ RegisterRows(r, users', tokens')
              /\ outbox' = outbox
         /\ (RegisterSend(r) /\ outbox' = outbox) =>
              /\ resp'.op = "register" /\ resp'.status = 500
              /\ RegisterRows(r, users', tokens')
              /\ \E t \in tokens' : t.token = reqs[r].token /\ t.user_id = reqs[r].uid]_vars

\* The dispatcher has reported a failure; the user and the token are stored.
C14_Witness ==
    /\ resp.op = "register"
    /\ resp.error = "Failed to send email"
    /\ \E u \in users : \E t \in tokens :
         /\ u.email = resp.args.email /\ ~u.verified
         /\ t.token = resp.args.token /\ t.user_id = u.id
         /\ \A m \in outbox : m.token # t.token

\* C15: the token a /api/register request creates is owned by the user the
\* request created and expires TOKEN_TTL after the Date.now() the request
\* reads when it creates it; a /api/register request is answered ok only by
\* its dispatch step, and then the store holds that user, unverified, with
\* the given email, and that token, and the e-mail carrying the token to
\* that address has just been dispatched; no step of a /api/register
\* request creates a session or sets a cookie.
C15_RegisterSuccess ==
    [][/\ \A r \in Reqs :
            /\ RegisterInsertToken(r) =>
                 /\ tokens' = tokens \cup
                       { [token |-> nextToken, user_id |-> reqs[r].uid,
                          expires_at |-> now + TOKEN_TTL] }
                 /\ \A t \in tokens : t.token # nextToken
                 /\ \E u \in users : u.id = reqs[r].uid /\ u.email = reqs[r].email
            /\ (RegisterSend(r) /\ resp'.status = 200) =>
                 /\ RegisterRows(r, users', tokens')
                 /\ \E t \in tokens' :
                      /\ t.token = reqs[r].token /\ t.user_id = reqs[r].uid
                      /\ t.expires_at <= now + TOKEN_TTL
                 /\ outbox' \ outbox = { [to |-> reqs[r].email, token |-> reqs[r].token] }
            /\ ( \/ \E in \in RegisterInputs : RegisterStart(r, in[1], in[2])
                 \/ RegisterInsertUser(r) \/ RegisterInsertToken(r) \/ RegisterSend(r) ) =>
                 /\ sessions' = sessions /\ issued' = issued
                 /\ resp'.setCookie = NoCookie
       /\ (resp'.op = "register" /\ resp'.status = 200 /\ resp # resp') =>
            \E r \in Reqs : RegisterSend(r)]_vars

\* A registration has been answered ok.
C15_Witness ==
    /\ seeded = 0
    /\ resp.op = "register"
    /\ resp.status = 200
    /\ sessions = {}
    /\ \E u \in users : \E t \in tokens :
         /\ u.email = resp.args.email /\ ~u.verified
         /\ t.token = resp.args.token /\ t.user_id = u.id
         /\ [to |-> u.email, token |-> t.token] \in outbox

\* C16: a /verify request whose token is missing or names no row is
\* answered at once, changes no table and sets no cookie; a /verify request
\* that reads Date.now() >= expires_at for its token ends there: it deletes
\* that token, changes no user, no session and no message, and sets no
\* cookie.
C16_FailedVerification ==
    [][\A r \in Reqs :
         /\ \A t \in TokenInputs :
              (VerifyStart(r, t) /\ (t = NoToken \/ SelectToken(tokens, t) = {})) =>
                 /\ UNCHANGED << stores, issued >>
                 /\ resp'.op = "verify" /\ resp'.setCookie = NoCookie
                 /\ reqs' = reqs
         /\ (VerifyCheck(r) /\ now >= reqs[r].exp) =>
              /\ tokens' = DeleteToken(tokens, reqs[r].token)
              /\ UNCHANGED << users, sessions, messages, issued >>
              /\ resp'.op = "verify" /\ resp'.setCookie = NoCookie
              /\ reqs'[r].pc = "idle"]_vars

\* C17: a /api/register request with a missing email, a missing password or
\* a password of fewer than 8 characters is answered 400 with the message
\* of the failed field check, whether or not the email is registered; it
\* goes no further, changes no table and dispatches no e-mail.
C17_ValidateFirst ==
    [][\A r \in Reqs : \A in \in RegisterInputs :
         (RegisterStart(r, in[1], in[2]) /\ ~RegisterValid(in[1], in[2])) =>
            /\ resp' = Reply("register",
                             [NoArgs EXCEPT !.email = in[1], !.password = in[2]], 400,
                             IF in[1] = "" \/ in[2] = ""
                             THEN "Email and password are required"
                             ELSE "Password must be at least 8 characters",
                             NoCookie)
            /\ reqs' = reqs
            /\ UNCHANGED << stores, outbox, nextToken, tokenOwner >>]_vars

\* A short password has been refused for an email that is registered.
C17_Witness ==
    /\ seeded = 0
    /\ resp.op = "register"
    /\ resp.status = 400
    /\ resp.error = "Password must be at least 8 characters"
    /\ Len(resp.args.password) < MIN_PASSWORD
    /\ \E u \in users : u.email = resp.args.email
    /\ tokens # {}

\* The cookie names a session in the store that is owned by user uid and
\* has not expired.
Authenticates(cookie, uid) ==
    \E s \in sessions : s.id = cookie /\ s.user_id = uid /\ now < s.expires_at

\* The sessions left after a request has validated the cookie: a session
\* the cookie names is gone when it has expired.
Validated(cookie) == { s \in sessions : s.id # cookie \/ now < s.expires_at }

\* C18: a /api/user request is answered with user u, and a post goes on as
\* user u, if and only if its cookie names a stored session of u that has
\* not expired; otherwise the request is answered 401 at once; and a
\* request whose cookie names an expired session deletes that session, and
\* no other.
C18_SessionValidity ==
    [][/\ \A c \in CookieInputs :
            GetUser(c) =>
              /\ resp'.op = "user"
              /\ \A u \in users :
                   (resp'.status = 200 /\ resp'.rows[1].id = u.id) <=> Authenticates(c, u.id)
              /\ (\A u \in users : ~Authenticates(c, u.id)) => resp'.status = 401
              /\ sessions' = Validated(c)
       /\ \A r \in Reqs : \A in \in PostInputs :
            PostStart(r, in[1], in[2]) =>
              /\ \A u \in users :
                   (reqs'[r].pc = "post_check" /\ reqs'[r].uid = u.id)
                      <=> Authenticates(in[1], u.id)
              /\ (\A u \in users : ~Authenticates(in[1], u.id)) =>
                   (resp'.op = "post" /\ resp'.status = 401 /\ reqs' = reqs)
              /\ sessions' = Validated(in[1])]_vars

\* A /api/user request carrying an expired session has been answered 401,
\* and the session is gone without a logout.
C18_Witness ==
    /\ resp.op = "user"
    /\ resp.status = 401
    /\ resp.error = "Invalid session"
    /\ resp.args.cookie \in DOMAIN issued
    /\ resp.args.cookie \notin loggedOut
    /\ SessionRow(sessions, resp.args.cookie) = {}
    /\ seeded = 0

\* C19: verifying a candidate against the digest hashPassword made of
\* password p, with any salt, answers true if and only if the candidate is
\* p; and verifying any candidate against a stored string that is not of
\* the form salt:digestHex answers false.
C19_HasherRoundTrip ==
    resp.op = "verifyPassword" =>
      \A u \in users :
        IF u.password_hash \in MalformedDigests
        THEN resp.rows = << FALSE >>
        ELSE resp.rows = << resp.args.password = reqs[1].password >>

\* C20: a /api/register request with valid fields that does not insert a
\* user, because the email is taken when it looks or when it inserts, is
\* answered 400 "Email already registered".
C20_ConcurrentDuplicate ==
    [][\A r \in Reqs :
         /\ \A in \in RegisterInputs :
              ( /\ RegisterStart(r, in[1], in[2])
                /\ RegisterValid(in[1], in[2])
                /\ reqs'[r].pc # "reg_insert_user" ) =>
                 (resp'.status = 400 /\ resp'.error = "Email already registered")
         /\ (RegisterInsertUser(r) /\ users' = users) =>
              (resp'.status = 400 /\ resp'.error = "Email already registered")]_vars

\* C21: the message a post inserts gets an id larger than every stored id,
\* and its created_at is not smaller than that of any stored message.
C21_TimestampOrder ==
    [][\A r \in Reqs :
         PostInsert(r) =>
           LET new == messages'[Len(messages')] IN
           \A i \in DOMAIN messages :
               messages[i].id < new.id /\ messages[i].created_at <= new.created_at]_vars

\* C22: the poller receives every stored message, each once.  A poll
\* returns only messages after lastTimestamp, and lastTimestamp never
\* decreases, so a stored message at or before lastTimestamp that has not
\* been received will never be: the claim requires that every stored
\* message at or before lastTimestamp has been received, and that no poll
\* returns a message received before.
C22_PollingLosesNothing ==
    /\ [](\A i \in DOMAIN messages :
            messages[i].created_at <= lastTimestamp => messages[i].id \in received)
    /\ [][Poll =>
            LET rows == ListQuery(users, messages, lastTimestamp) IN
            \A k \in DOMAIN rows : rows[k].id \notin received]_vars

\* User id is stored unverified, owns no stored token, and no request that
\* is under way is about to write its token or has read one of its tokens.
Stuck(id) ==
    /\ \E u \in users : u.id = id /\ ~u.verified
    /\ \A t \in tokens : t.user_id # id
    /\ \A r \in Reqs :
         reqs[r].uid = id => reqs[r].pc \notin { "reg_insert_token", "ver_check" }

\* C23: once a user is unverified without a token, no step of a
\* /api/register, /verify or /api/login request changes that: the user
\* stays unverified and without a token, no session of the user exists or
\* is being created, and no other user row gets its email.
C23_StuckAccount ==
    [][\A id \in 1 .. Cardinality(users) :
         Stuck(id) =>
           /\ Stuck(id)'
           /\ \A s \in sessions' : s.user_id # id
           /\ \A r \in Reqs : reqs'[r].pc = "login_session" => reqs'[r].uid # id
           /\ \A u, v \in users' : (u.id = id /\ v.email = u.email) => v.id = id
           /\ Len(tokenOwner') > Len(tokenOwner) => tokenOwner'[Len(tokenOwner')] # id]_vars

\* The token of an unverified user was deleted as expired, and a login with
\* the user's own password has then been refused.
C23_Witness ==
    /\ resp.op = "login"
    /\ resp.status = 401
    /\ \E u \in users :
         /\ Stuck(u.id)
         /\ u.email = resp.args.email
         /\ verifyPassword(u.password_hash, resp.args.password)
         /\ \E t \in DOMAIN tokenOwner : tokenOwner[t] = u.id

\* C24: a /api/logout request removes at most one session, the one its
\* cookie names; every other session is kept as it is, so it is valid
\* afterwards if it was valid before; users, tokens and messages are
\* unchanged.
C24_LogoutScope ==
    [][\A c \in CookieInputs :
         Logout(c) =>
           /\ sessions' \subseteq sessions
           /\ \A s \in sessions \ sessions' : s.id = c
           /\ Cardinality(sessions \ sessions') <= 1
           /\ \A s \in sessions :
                (s.id # c /\ SessionValid(sessions, s.id, now)) =>
                   SessionValid(sessions', s.id, now')
           /\ UNCHANGED << users, tokens, messages >>]_vars

\* A logout has removed one of two sessions of a user; the other is valid.
C24_Witness ==
    /\ resp.op = "logout"
    /\ resp.args.cookie \in loggedOut
    /\ SessionRow(sessions, resp.args.cookie) = {}
    /\ \E s \in sessions :
         /\ s.user_id = issued[resp.args.cookie]
         /\ SessionValid(sessions, s.id, now)

\* C25: a step either leaves the message log as it is, or is the insert of
\* a post and appends one message to it: the stored messages keep their id,
\* author, body and created_at, the new id is larger than every stored id,
\* and the new body is trimmed and has 1 to 1000 characters.
C25_AppendOnly ==
    [][\/ messages' = messages
       \/ \E r \in Reqs :
            /\ PostInsert(r)
            /\ resp'.op = "post" /\ resp'.status = 200
            /\ Len(messages') = Len(messages) + 1
            /\ SubSeq(messages', 1, Len(messages)) = messages
            /\ LET new == messages'[Len(messages')] IN
               /\ \A i \in DOMAIN messages : messages[i].id < new.id
               /\ new.message = Trim(new.message)
               /\ StrLen(new.message) >= 1
               /\ StrLen(new.message) <= MAX_MESSAGE]_vars

\* Two posts have been appended, the second one sent with blanks around it.
C25_Witness ==
    /\ Len(messages) = seeded + 2
    /\ resp.op = "post"
    /\ resp.status = 200
    /\ resp.args.text = Text(1, 2, 1)
    /\ messages[Len(messages)].message = Text(0, 2, 0)
    /\ messages[Len(messages)].id = Len(messages)

\* C26: the owner of every stored session is a stored user with verified
\* set; a /api/user answer never shows a user with verified unset; and the
\* author of every stored message is a verified user.
C26_SessionsVerified ==
    /\ \A s \in sessions : \E u \in users : u.id = s.user_id /\ u.verified
    /\ (resp.op = "user" /\ resp.status = 200) => resp.rows[1].verified
    /\ \A i \in DOMAIN messages : \E u \in users : u.id = messages[i].user_id /\ u.verified

\* /api/user has answered for a session that a verification created.
C26_Witness ==
    /\ seeded = 0
    /\ resp.op = "user"
    /\ resp.status = 200
    /\ \E s \in sessions : s.id = resp.args.cookie /\ s.user_id = resp.rows[1].id
    /\ resp.rows[1].verified
    /\ Len(verifications) = 1

\* C27: no two user rows have the same email.
C27_EmailUnique ==
    \A u, v \in users : u.email = v.email => u = v

\* The second of two concurrent registrations of one email has failed at
\* its INSERT; one row holds the email.
C27_Witness ==
    /\ resp.op = "register"
    /\ resp.error = "Registration failed"
    /\ Cardinality({ u \in users : u.email = resp.args.email }) = 1

\* C28: no two verification tokens were ever created for the same user,
\* and no two stored tokens have the same owner.
C28_OneTokenPerAccount ==
    /\ \A i, j \in DOMAIN tokenOwner : i # j => tokenOwner[i] # tokenOwner[j]
    /\ \A t1, t2 \in tokens : t1.user_id = t2.user_id => t1 = t2

\* Two users are registered, each with its own stored token.
C28_Witness ==
    /\ seeded = 0
    /\ Cardinality(users) = 2
    /\ Cardinality(tokens) = 2
    /\ \A u \in users : \E t \in tokens : t.user_id = u.id

\* C29: an e-mail is handed to the dispatcher only by the dispatch step of
\* a /api/register request, and the token it carries is then in the store,
\* owned by the stored user whose email is the recipient.
C29_DispatchAfterPersist ==
    [][\A m \in outbox' \ outbox :
         /\ \E r \in Reqs : RegisterSend(r) /\ reqs[r].email = m.to /\ reqs[r].token = m.token
         /\ \E t \in tokens : \E u \in users :
              /\ t.token = m.token
              /\ t.user_id = u.id
              /\ u.email = m.to]_vars

\* Two verification e-mails have been dispatched, to different addresses.
C29_Witness ==
    /\ seeded = 0
    /\ Cardinality(outbox) = 2
    /\ \A m1, m2 \in outbox : m1.to = m2.to => m1 = m2
====
